---- MODULE Spec2Model ----
(***************************************************************************)
(* Model of bbox/bbox.py and bbox/utils.py: the batched bounding-box type  *)
(* BBox, its constructor, accessors, operators, rectify / IoU and stack.   *)
(*                                                                         *)
(* Numbers are exact rationals <<n, d>> (d > 0, lowest terms).  An ndarray *)
(* is a record [dtype, shape, data]: dtype "int" or "float", shape the     *)
(* full shape (coordinate axis included), data a function from 0-based     *)
(* index tuples to rationals.  A BBox is the address of its _xyxy array in *)
(* the heap, so that aliasing of the caller's array is visible.            *)
(***************************************************************************)
EXTENDS Integers, Sequences, FiniteSets, TLC

VARIABLES heap, isnd, self, other, call, ret, pre

vars == <<heap, isnd, self, other, call, ret, pre>>

-----------------------------------------------------------------------------
(* Bounds of the model *)

\* input coordinates are the integers -1 .. MaxCoord
MaxCoord == 1
\* number of constructor calls made on the caller's array
MaxCalls == 2
\* number of operators applied in a row to a box
MaxOps == 2
\* number of scaling operators applied in a row to a box
MaxScales == 1
\* highest batch rank of the boxes handed to stack
MaxRank == 1
\* highest number of boxes handed to stack
MaxBoxes == 3

-----------------------------------------------------------------------------
(* Exact rational arithmetic *)

RECURSIVE GCD(_, _)
GCD(a, b) ==
    IF b = 0 THEN a ELSE GCD(b, a % b)

Abs(n) ==
    IF n < 0 THEN -n ELSE n

Q(n, d) ==
    LET s == IF d < 0 THEN -1 ELSE 1
        g == GCD(Abs(n), Abs(d))
    IN  <<(s * n) \div g, (s * d) \div g>>

I(n) ==
    <<n, 1>>

Half ==
    <<1, 2>>

RAdd(x, y) ==
    Q(x[1] * y[2] + y[1] * x[2], x[2] * y[2])

RNeg(x) ==
    <<-x[1], x[2]>>

RSub(x, y) ==
    RAdd(x, RNeg(y))

RMul(x, y) ==
    Q(x[1] * y[1], x[2] * y[2])

\* y # 0
RDiv(x, y) ==
    Q(x[1] * y[2], x[2] * y[1])

RLe(x, y) ==
    x[1] * y[2] <= y[1] * x[2]

RLt(x, y) ==
    x[1] * y[2] < y[1] * x[2]

RMax(x, y) ==
    IF RLe(x, y) THEN y ELSE x

RMin(x, y) ==
    IF RLe(x, y) THEN x ELSE y

\* conversion of a float to an integer dtype: truncation toward zero
RTrunc(x) ==
    IF x[1] >= 0 THEN I(x[1] \div x[2]) ELSE I(-((-x[1]) \div x[2]))

\* a Python scalar of the model is an int when integral, a float otherwise
IsPyInt(x) ==
    x[2] = 1

-----------------------------------------------------------------------------
(* ndarrays and the heap *)

Null ==
    [dtype |-> "null", shape |-> <<>>, data |-> <<>>]

Indices(shape) ==
    LET n == Len(shape)
        m == IF n = 0 THEN 0
             ELSE CHOOSE k \in {shape[j] : j \in 1..n} :
                      \A j \in 1..n : shape[j] <= k
    IN  {s \in [1..n -> 0..(m - 1)] : \A j \in 1..n : s[j] < shape[j]}

Col(i) ==
    i[Len(i)]

WithCol(i, c) ==
    [i EXCEPT ![Len(i)] = c]

\* value stored by item assignment into an array of the given dtype
Cast(dtype, v) ==
    IF dtype = "int" THEN RTrunc(v) ELSE v

Addrs ==
    1..(MaxOps + MaxBoxes)

\* the address of the array the caller passes to the constructor
CallerArr ==
    1

Alloc(h) ==
    CHOOSE a \in Addrs : h[a] = Null /\ \A b \in 1..(a - 1) : h[b] # Null

\* the array object a BBox is rebound away from is dropped unless it is the
\* caller's own array or another live BBox still holds it
Free(h, a, live) ==
    IF a = 0 \/ a = CallerArr \/ a \in live THEN h ELSE [h EXCEPT ![a] = Null]

-----------------------------------------------------------------------------
(* Calls are recorded as they are made *)

NoCall ==
    [op |-> "none", mode |-> "", base |-> I(0), copy |-> FALSE,
     arg |-> [scalar |-> FALSE, items |-> <<>>], on |-> 0, axis |-> 0,
     out |-> Null]

Ok(v) ==
    [err |-> "", val |-> v]

Raise(e) ==
    [err |-> e, val |-> <<>>]

-----------------------------------------------------------------------------
(* BBox.__init__ *)

Modes ==
    {"xyxy", "xywh", "ccwh"}

\* default of the base parameter of BBox.__init__
DefaultBase ==
    0

XywhToXyxy_Exclusive(a) ==
    [a EXCEPT !.data = [i \in DOMAIN a.data |->
        IF Col(i) >= 2
        THEN RAdd(a.data[i], a.data[WithCol(i, Col(i) - 2)])
        ELSE a.data[i]]]

\* arr[..., 2:] += arr[..., :2] - 1
XywhToXyxy(a) ==
    [a EXCEPT !.data = [i \in DOMAIN a.data |->
        IF Col(i) >= 2
        THEN RAdd(a.data[i], RSub(a.data[WithCol(i, Col(i) - 2)], I(1)))
        ELSE a.data[i]]]

\* arr[..., :2] -= (arr[..., 2:] - 1) / 2     (the operand is a float array)
CcwhToXywh(a) ==
    [a EXCEPT !.data = [i \in DOMAIN a.data |->
        IF Col(i) < 2
        THEN RSub(a.data[i],
                  RDiv(RSub(a.data[WithCol(i, Col(i) + 2)], I(1)), I(2)))
        ELSE a.data[i]]]

ShiftBase_Add(a, base) ==
    [a EXCEPT !.data = [i \in DOMAIN a.data |-> RAdd(a.data[i], base)]]

\* arr -= base
ShiftBase(a, base) ==
    [a EXCEPT !.data = [i \in DOMAIN a.data |-> RSub(a.data[i], base)]]

\* an in-place ufunc cannot store a float result into an integer array
CastFails(a, operandIsInt) ==
    a.dtype = "int" /\ ~operandIsInt

Storage_NeverCopy(h, src, nd, copy) ==
    IF nd THEN src ELSE Alloc(h)

\* the array object the constructor works on: the caller's own ndarray when
\* copy is false, a fresh array (arr.copy() or np.array(arr)) otherwise
Storage(h, src, nd, copy) ==
    IF nd /\ ~copy THEN src ELSE Alloc(h)

\* Result of BBox(arr, mode, base, copy) where arr is heap[src] and nd tells
\* whether it is an np.ndarray: the new heap, the address of _xyxy (0 when
\* the call raised) and the exception raised ("" for none).
BBoxInit(h, src, nd, mode, base, copy) ==
    IF mode \notin Modes
    THEN [heap |-> h, bbox |-> 0, err |-> "ValueError_mode"]
    ELSE
    LET addr == Storage(h, src, nd, copy)
        a0   == h[src]
        fail(hh, e) == [heap |-> hh, bbox |-> 0, err |-> e]
        drop(arr) == IF addr = src THEN [h EXCEPT ![addr] = arr] ELSE h
    IN  IF Len(a0.shape) = 0
        THEN fail(h, "IndexError")
        ELSE IF a0.shape[Len(a0.shape)] # 4
        THEN fail(h, "ValueError_shape")
        ELSE IF mode = "ccwh" /\ CastFails(a0, FALSE)
        THEN fail(h, "UFuncTypeError")
        ELSE
        LET a1 == IF mode = "xywh" THEN XywhToXyxy(a0)
                  ELSE IF mode = "ccwh" THEN XywhToXyxy(CcwhToXywh(a0))
                  ELSE a0
        IN  IF CastFails(a1, IsPyInt(base))
            THEN fail(drop(a1), "UFuncTypeError")
            ELSE [heap |-> [h EXCEPT ![addr] = ShiftBase(a1, base)],
                  bbox |-> addr, err |-> ""]

-----------------------------------------------------------------------------
(* Accessors *)

\* leading (batch) index tuples of a BBox storage
Batch(a) ==
    {SubSeq(i, 1, Len(i) - 1) : i \in DOMAIN a.data}

At(a, b, c) ==
    a.data[Append(b, c)]

\* BBox._size: xyxy[..., 2:] - xyxy[..., :2] + 1, as <<w, h>> per batch entry
Size(a) ==
    [b \in Batch(a) |->
        <<RAdd(RSub(At(a, b, 2), At(a, b, 0)), I(1)),
          RAdd(RSub(At(a, b, 3), At(a, b, 1)), I(1))>>]

\* BBox._center: (xyxy[..., :2] + xyxy[..., 2:]) / 2
Center(a) ==
    [b \in Batch(a) |->
        <<RDiv(RAdd(At(a, b, 0), At(a, b, 2)), I(2)),
          RDiv(RAdd(At(a, b, 1), At(a, b, 3)), I(2))>>]

\* np.stack((c0, c1, c2, c3), -1) of four per-entry columns
StackCols(a, dtype, cols) ==
    [dtype |-> dtype, shape |-> a.shape,
     data |-> [i \in DOMAIN a.data |->
                 cols[SubSeq(i, 1, Len(i) - 1)][Col(i) + 1]]]

\* (x0, y0, w, h) of a box, as test_size_xywh builds it
AsXywh(a) ==
    StackCols(a, a.dtype,
        [b \in Batch(a) |->
            <<At(a, b, 0), At(a, b, 1), Size(a)[b][1], Size(a)[b][2]>>])

\* (cx, cy, w, h) of a box, as test_center_size_ccwh builds it; the center
\* is a true division, so the stacked array is a float array
AsCcwh(a) ==
    StackCols(a, "float",
        [b \in Batch(a) |->
            <<Center(a)[b][1], Center(a)[b][2], Size(a)[b][1], Size(a)[b][2]>>])

-----------------------------------------------------------------------------
(* utils.pair and the translation / scaling operators *)

\* a Pairable argument: a bare scalar, or a collection of any length
Scalar(v) ==
    [scalar |-> TRUE, items |-> <<v>>]

Tuple(s) ==
    [scalar |-> FALSE, items |-> s]

\* pair(x): len(x) raises TypeError for a scalar, which yields (x, x)
pair(x) ==
    IF x.scalar THEN [err |-> "", val |-> <<x.items[1], x.items[1]>>]
    ELSE IF Len(x.items) = 2 THEN [err |-> "", val |-> x.items]
    ELSE [err |-> "ValueError_pair", val |-> <<>>]

\* xyxy[..., 0::2] += dx  (cols = {0, 2})  or  xyxy[..., 1::2] += dy
AddCols(a, cols, d) ==
    [a EXCEPT !.data = [i \in DOMAIN a.data |->
        IF Col(i) \in cols THEN RAdd(a.data[i], d) ELSE a.data[i]]]

\* the two in-place statements of __iadd__ / __isub__, the second of which
\* may raise after the first has been applied
AddPair(a, dx, dy) ==
    IF CastFails(a, IsPyInt(dx)) THEN [err |-> "UFuncTypeError", arr |-> a]
    ELSE IF CastFails(a, IsPyInt(dy))
    THEN [err |-> "UFuncTypeError", arr |-> AddCols(a, {0, 2}, dx)]
    ELSE [err |-> "", arr |-> AddCols(AddCols(a, {0, 2}, dx), {1, 3}, dy)]

IAdd_XOnly(a, point) ==
    LET p == pair(point)
    IN  IF p.err # "" THEN [err |-> p.err, arr |-> a]
        ELSE AddPair(a, p.val[1], I(0))

\* BBox.__iadd__
IAdd(a, point) ==
    LET p == pair(point)
    IN  IF p.err # "" THEN [err |-> p.err, arr |-> a]
        ELSE AddPair(a, p.val[1], p.val[2])

\* BBox.__isub__
ISub(a, point) ==
    LET p == pair(point)
    IN  IF p.err # "" THEN [err |-> p.err, arr |-> a]
        ELSE AddPair(a, RNeg(p.val[1]), RNeg(p.val[2]))

\* the four item assignments of BBox.scale on array a
ScaleEdges(a, kx, ky, fpx, fpy) ==
    [a EXCEPT !.data = [i \in DOMAIN a.data |->
        LET c  == Col(i)
            k  == IF c % 2 = 0 THEN kx ELSE ky
            fp == IF c % 2 = 0 THEN fpx ELSE fpy
            v  == a.data[i]
        IN  Cast(a.dtype,
                 IF c < 2
                 THEN RAdd(RAdd(RMul(RSub(RSub(v, Half), fp), k), fp), Half)
                 ELSE RSub(RAdd(RMul(RSub(RAdd(v, Half), fp), k), fp), Half))]]

\* BBox.scale(factor, fixed_point) with inplace=True
Scale(a, factor, fixed_point) ==
    LET k  == pair(factor)
        fp == pair(fixed_point)
    IN  IF k.err # "" THEN [err |-> k.err, arr |-> a]
        ELSE IF fp.err # "" THEN [err |-> fp.err, arr |-> a]
        ELSE [err |-> "",
              arr |-> ScaleEdges(a, k.val[1], k.val[2], fp.val[1], fp.val[2])]

IMul_AboutOrigin(a, factor) ==
    Scale(a, factor, Scalar(I(0)))

\* BBox.__imul__: self.scale(factor, -0.5)
IMul(a, factor) ==
    Scale(a, factor, Scalar(RNeg(Half)))

\* BBox.__itruediv__: self *= (1 / kx, 1 / ky)
ITrueDiv(a, factor) ==
    LET k == pair(factor)
    IN  IF k.err # "" THEN [err |-> k.err, arr |-> a]
        ELSE IF k.val[1][1] = 0 \/ k.val[2][1] = 0
        THEN [err |-> "ZeroDivisionError", arr |-> a]
        ELSE IMul(a, Tuple(<<RDiv(I(1), k.val[1]), RDiv(I(1), k.val[2])>>))

\* BBox.__copy__: BBox(self._xyxy, copy=True)
Copy(h, b) ==
    BBoxInit(h, b, TRUE, "xyxy", I(DefaultBase), TRUE)

-----------------------------------------------------------------------------
(* Validity, area, intersection, IoU, is_inside and rectify *)

\* BBox.is_valid: (w > 0) & (h > 0)
IsValid(a) ==
    [b \in Batch(a) |-> RLt(I(0), Size(a)[b][1]) /\ RLt(I(0), Size(a)[b][2])]

Area_Product(a) ==
    [b \in Batch(a) |-> RMul(Size(a)[b][1], Size(a)[b][2])]

\* BBox.area: width * height * self.is_valid()
Area(a) ==
    [b \in Batch(a) |->
        RMul(RMul(Size(a)[b][1], Size(a)[b][2]),
             IF IsValid(a)[b] THEN I(1) ELSE I(0))]

Promote(t, u) ==
    IF t = "int" /\ u = "int" THEN "int" ELSE "float"

\* BBox.__and__: the array np.concatenate((lt, rb), -1) of the result
And(a, o) ==
    [dtype |-> Promote(a.dtype, o.dtype), shape |-> a.shape,
     data |-> [i \in DOMAIN a.data |->
                 IF Col(i) < 2 THEN RMax(a.data[i], o.data[i])
                 ELSE RMin(a.data[i], o.data[i])]]

\* the value of 0 / 0 in numpy
NaN ==
    <<0, 0>>

\* numpy true division
NpDiv(x, y) ==
    IF y[1] # 0 THEN RDiv(x, y)
    ELSE IF x[1] = 0 THEN NaN
    ELSE IF x[1] > 0 THEN <<1, 0>> ELSE <<-1, 0>>

IoU_OverSum(a, o) ==
    [b \in Batch(a) |->
        NpDiv(Area(And(a, o))[b], RAdd(Area(a)[b], Area(o)[b]))]

\* BBox.IoU: its_area / (self.area + other.area - its_area)
IoU(a, o) ==
    [b \in Batch(a) |->
        NpDiv(Area(And(a, o))[b],
              RSub(RAdd(Area(a)[b], Area(o)[b]), Area(And(a, o))[b]))]

\* BBox.is_inside
IsInside(a, im_size) ==
    LET p == pair(im_size)
    IN  IF p.err # "" THEN Raise(p.err)
        ELSE Ok([b \in Batch(a) |->
                 /\ RLe(I(0), At(a, b, 0))
                 /\ RLe(At(a, b, 0), RSub(p.val[1], I(1)))
                 /\ RLe(I(0), At(a, b, 1))
                 /\ RLe(At(a, b, 1), RSub(p.val[2], I(1)))
                 /\ RLe(I(0), At(a, b, 2))
                 /\ RLe(At(a, b, 2), RSub(p.val[1], I(1)))
                 /\ RLe(I(0), At(a, b, 3))
                 /\ RLe(At(a, b, 3), RSub(p.val[2], I(1)))])

\* ndarray.clip(lo, hi): minimum(hi, maximum(v, lo))
Clip(v, lo, hi) ==
    RMin(hi, RMax(v, lo))

Rectify_Exclusive(a, im_size) ==
    LET p == pair(im_size)
    IN  IF p.err # "" THEN [err |-> p.err, arr |-> Null]
        ELSE [err |-> "",
              arr |-> [dtype |-> a.dtype, shape |-> a.shape,
                       data |-> [i \in DOMAIN a.data |->
                           Clip(a.data[i], I(0), p.val[1 + (Col(i) % 2)])]]]

\* BBox.rectify: the array np.stack((xx0, yy0, xx1, yy1), -1) of the result
Rectify(a, im_size) ==
    LET p == pair(im_size)
    IN  IF p.err # "" THEN [err |-> p.err, arr |-> Null]
        ELSE [err |-> "",
              arr |-> [dtype |-> IF IsPyInt(p.val[1]) /\ IsPyInt(p.val[2])
                                 THEN a.dtype ELSE "float",
                       shape |-> a.shape,
                       data |-> [i \in DOMAIN a.data |->
                           Clip(a.data[i], I(0),
                                RSub(p.val[1 + (Col(i) % 2)], I(1)))]]]

-----------------------------------------------------------------------------
(* stack and indexing *)

RemoveAt(s, j) ==
    SubSeq(s, 1, j - 1) \o SubSeq(s, j + 1, Len(s))

InsertAt(s, j, v) ==
    SubSeq(s, 1, j - 1) \o <<v>> \o SubSeq(s, j, Len(s))

\* np.stack(arrays, axis) of equally shaped arrays: the new axis is inserted
\* at position axis of the result, a negative axis counting from its end
NpStack(arrays, axis) ==
    LET r == Len(arrays[1].shape)
        j == (IF axis < 0 THEN axis + r + 1 ELSE axis) + 1
    IN  IF axis < -(r + 1) \/ axis > r THEN [err |-> "AxisError", arr |-> Null]
        ELSE [err |-> "",
              arr |-> [dtype |-> IF \A k \in 1..Len(arrays) : arrays[k].dtype = "int"
                                 THEN "int" ELSE "float",
                       shape |-> InsertAt(arrays[1].shape, j, Len(arrays)),
                       data |-> [i \in Indices(InsertAt(arrays[1].shape, j, Len(arrays)))
                                   |-> arrays[i[j] + 1].data[RemoveAt(i, j)]]]]

StackAxis_Unshifted(ndim, axis) ==
    IF axis < -ndim - 1 \/ axis > ndim THEN [err |-> "AxisError", axis |-> axis]
    ELSE [err |-> "", axis |-> axis]

\* the axis check of stack and the axis it hands to np.stack
StackAxis(ndim, axis) ==
    IF axis < -ndim - 1 \/ axis > ndim THEN [err |-> "AxisError", axis |-> axis]
    ELSE IF axis < 0 THEN [err |-> "", axis |-> axis - 1]
    ELSE [err |-> "", axis |-> axis]

\* stack(bboxes, axis) for the boxes at the addresses bboxes of heap h
Stack(h, bboxes, axis) ==
    LET ndim == Len(h[bboxes[1]].shape) - 1
        ax   == StackAxis(ndim, axis)
        st   == NpStack([k \in 1..Len(bboxes) |-> h[bboxes[k]]], ax.axis)
        a    == Alloc(h)
    IN  IF ax.err # "" THEN [heap |-> h, bbox |-> 0, err |-> ax.err]
        ELSE IF st.err # "" THEN [heap |-> h, bbox |-> 0, err |-> st.err]
        ELSE LET b == BBoxInit([h EXCEPT ![a] = st.arr], a, TRUE, "xyxy",
                               I(DefaultBase), FALSE)
             IN  IF b.err = "" THEN b ELSE [heap |-> h, bbox |-> 0, err |-> b.err]

\* the coordinates of BBox.__getitem__(key) for an integer key: those of
\* self._xyxy[key]
GetItem(a, key) ==
    IF Len(a.shape) < 2 \/ key >= a.shape[1] \/ key < -a.shape[1]
    THEN [err |-> "IndexError", arr |-> Null]
    ELSE LET k == IF key < 0 THEN key + a.shape[1] ELSE key
         IN  [err |-> "",
              arr |-> [dtype |-> a.dtype, shape |-> Tail(a.shape),
                       data |-> [i \in Indices(Tail(a.shape)) |-> a.data[<<k>> \o i]]]]

-----------------------------------------------------------------------------
(* Construction: the caller holds an array (or a tuple / list) and builds   *)
(* BBoxes from it                                                           *)

Coords ==
    {I(n) : n \in (-1)..MaxCoord}

InputModes ==
    Modes \cup {"xxyy"}

InputBases ==
    {I(0), I(1), Half}

FilledArray(dtype, shape, v) ==
    [dtype |-> dtype, shape |-> shape, data |-> [i \in Indices(shape) |-> v]]

InputArrays ==
    {[dtype |-> t, shape |-> <<4>>, data |-> d] :
        t \in {"int", "float"}, d \in [Indices(<<4>>) -> Coords]}
    \cup {[dtype |-> t, shape |-> <<2, 4>>,
           data |-> [i \in Indices(<<2, 4>>) |->
                       IF i[1] = 0 THEN d[<<i[2]>>] ELSE RAdd(d[<<i[2]>>], I(i[2]))]] :
        t \in {"int", "float"},
        d \in [Indices(<<4>>) -> {I(0), I(MaxCoord + 1)}]}
    \cup {FilledArray(t, s, v) :
        t \in {"int", "float"}, s \in {<<>>, <<2>>, <<4, 2>>}, v \in Coords}

InitConstruct ==
    /\ \E a \in InputArrays :
         heap = [x \in Addrs |-> IF x = CallerArr THEN a ELSE Null]
    /\ isnd \in BOOLEAN
    /\ self = 0
    /\ other = 0
    /\ call = <<>>
    /\ ret = Ok(0)
    /\ pre = heap

\* b = BBox(arr, mode, base, copy); a further call builds another box from
\* the same arr with the same mode and base
Construct(mode, base, copy) ==
    /\ Len(call) < MaxCalls
    /\ IF call = <<>> THEN TRUE
       ELSE /\ call[Len(call)].op = "init" /\ ret.err = ""
            /\ mode = call[1].mode /\ base = call[1].base
    /\ LET r == BBoxInit(heap, CallerArr, isnd, mode, base, copy)
           c == [NoCall EXCEPT !.op = "init", !.mode = mode, !.base = base,
                               !.copy = copy,
                               !.out = IF r.err = "" THEN r.heap[r.bbox] ELSE Null]
       IN  /\ heap' = r.heap
           /\ ret' = IF r.err = "" THEN Ok(r.bbox) ELSE Raise(r.err)
           /\ call' = Append(call, c)
           /\ IF call = <<>>
              THEN self' = r.bbox /\ other' = other
              ELSE self' = self /\ other' = r.bbox
    /\ pre' = heap
    /\ UNCHANGED isnd

\* bbox2 = BBox(np.stack((x0, y0, w, h), -1), mode="xywh")
FromXywh ==
    /\ self # 0 /\ Len(call) = 1
    /\ LET a == Alloc(heap)
           r == BBoxInit([heap EXCEPT ![a] = AsXywh(heap[self])], a, TRUE,
                         "xywh", I(DefaultBase), FALSE)
       IN  /\ heap' = r.heap
           /\ other' = r.bbox
           /\ ret' = IF r.err = "" THEN Ok(r.bbox) ELSE Raise(r.err)
           /\ call' = Append(call, [NoCall EXCEPT !.op = "from_xywh"])
    /\ pre' = heap
    /\ UNCHANGED <<isnd, self>>

\* bbox2 = BBox(np.stack((cx, cy, w, h), -1), mode="ccwh")
FromCcwh ==
    /\ self # 0 /\ Len(call) = 1
    /\ LET a == Alloc(heap)
           r == BBoxInit([heap EXCEPT ![a] = AsCcwh(heap[self])], a, TRUE,
                         "ccwh", I(DefaultBase), FALSE)
       IN  /\ heap' = r.heap
           /\ other' = r.bbox
           /\ ret' = IF r.err = "" THEN Ok(r.bbox) ELSE Raise(r.err)
           /\ call' = Append(call, [NoCall EXCEPT !.op = "from_ccwh"])
    /\ pre' = heap
    /\ UNCHANGED <<isnd, self>>

NextConstruct ==
    \/ \E m \in InputModes, b \in InputBases, c \in BOOLEAN : Construct(m, b, c)
    \/ FromXywh
    \/ FromCcwh

SpecConstruct ==
    InitConstruct /\ [][NextConstruct]_vars

-----------------------------------------------------------------------------
(* Arithmetic: a box b (self) and the box at hand (other): b itself, or the *)
(* temporary the last copying operator returned                             *)

\* a batch of two boxes: (0, 0, m, m) and (1, 1, m + 1, m + 1), m = MaxCoord
BatchOfTwo(t) ==
    [dtype |-> t, shape |-> <<2, 4>>,
     data |-> [i \in Indices(<<2, 4>>) |-> I(i[1] + (i[2] \div 2) * MaxCoord)]]

ArithBoxes ==
    {[dtype |-> t, shape |-> <<4>>, data |-> d] :
        t \in {"int", "float"}, d \in [Indices(<<4>>) -> {I(0), I(MaxCoord)}]}
    \cup {BatchOfTwo(t) : t \in {"int", "float"}}

ArithArgs ==
    {Scalar(I(2)), Scalar(Half), Tuple(<<Half, Half>>), Tuple(<<I(2), Half>>),
     Scalar(I(0)), Tuple(<<I(1), I(2), I(3)>>)}

InitArith ==
    /\ \E a \in ArithBoxes :
         heap = [x \in Addrs |-> IF x = CallerArr THEN a ELSE Null]
    /\ isnd = TRUE
    /\ self = CallerArr
    /\ other = CallerArr
    /\ call = <<>>
    /\ ret = Ok(CallerArr)
    /\ pre = heap

\* bb op= arg on the box at hand, where r is the outcome of the operator
InPlace(name, arg, r) ==
    /\ heap' = [heap EXCEPT ![other] = r.arr]
    /\ ret' = IF r.err = "" THEN Ok(other) ELSE Raise(r.err)
    /\ call' = Append(call, [NoCall EXCEPT !.op = name, !.arg = arg, !.on = other])
    /\ pre' = heap
    /\ UNCHANGED <<isnd, self, other>>

\* the in-place operator a copying operator applies to its copy
Augmented(name, a, arg) ==
    CASE name = "add" -> IAdd(a, arg)
      [] name = "sub" -> ISub(a, arg)
      [] name = "mul" -> IMul(a, arg)
      [] name = "truediv" -> ITrueDiv(a, arg)

\* bb = copy(box at hand); bb op= arg; return bb
Copying(name, arg) ==
    /\ LET c  == Copy(heap, other)
           r  == Augmented(name, c.heap[c.bbox], arg)
           h1 == [c.heap EXCEPT ![c.bbox] = r.arr]
       IN  IF r.err = ""
           THEN /\ heap' = Free(h1, other, {self})
                /\ other' = c.bbox
                /\ ret' = Ok(c.bbox)
           ELSE /\ heap' = heap
                /\ other' = other
                /\ ret' = Raise(r.err)
    /\ call' = Append(call, [NoCall EXCEPT !.op = name, !.arg = arg, !.on = other])
    /\ pre' = heap
    /\ UNCHANGED <<isnd, self>>

Last(s) ==
    s[Len(s)]

LastOp ==
    IF call = <<>> THEN "none" ELSE Last(call).op

\* no call follows one that raised; n bounds the number of calls
CanCall(n) ==
    Len(call) < n /\ ret.err = ""

DoIAdd(arg, n) ==
    /\ CanCall(n)
    /\ InPlace("iadd", arg, IAdd(heap[other], arg))

DoAdd(arg, n) ==
    /\ CanCall(n)
    /\ Copying("add", arg)

DoISub(arg, n) ==
    /\ CanCall(n)
    /\ InPlace("isub", arg, ISub(heap[other], arg))

DoSub(arg, n) ==
    /\ CanCall(n)
    /\ Copying("sub", arg)

DoIMul(arg, n) ==
    /\ CanCall(n)
    /\ InPlace("imul", arg, IMul(heap[other], arg))

DoMul(arg, n) ==
    /\ CanCall(n)
    /\ Copying("mul", arg)

DoITrueDiv(arg, n) ==
    /\ CanCall(n)
    /\ InPlace("itruediv", arg, ITrueDiv(heap[other], arg))

DoTrueDiv(arg, n) ==
    /\ CanCall(n)
    /\ Copying("truediv", arg)

NextArith ==
    \E arg \in ArithArgs :
        \/ DoIAdd(arg, MaxOps)
        \/ DoAdd(arg, MaxOps)
        \/ DoISub(arg, MaxOps)
        \/ DoSub(arg, MaxOps)
        \/ DoIMul(arg, MaxOps)
        \/ DoMul(arg, MaxOps)
        \/ DoITrueDiv(arg, MaxOps)
        \/ DoTrueDiv(arg, MaxOps)

SpecArith ==
    InitArith /\ [][NextArith]_vars

NextScale ==
    \E arg \in ArithArgs :
        \/ DoIMul(arg, MaxScales)
        \/ DoMul(arg, MaxScales)
        \/ DoITrueDiv(arg, MaxScales)
        \/ DoTrueDiv(arg, MaxScales)

SpecScale ==
    InitArith /\ [][NextScale]_vars

-----------------------------------------------------------------------------
(* Rectify: bbox = BBox(arr); bbox = bbox.rectify(size); ... with self the  *)
(* box bound to bbox                                                        *)

ImageSizes ==
    {Scalar(I(1)), Scalar(I(2)), Scalar(<<3, 2>>), Tuple(<<I(2), I(1)>>),
     Scalar(Half), Tuple(<<I(1), I(2), I(3)>>)}

InitRectify ==
    /\ \E t \in {"int", "float"} :
         \/ \E d \in [Indices(<<4>>) -> Coords] :
              heap = [x \in Addrs |->
                        IF x = CallerArr
                        THEN [dtype |-> t, shape |-> <<4>>, data |-> d]
                        ELSE Null]
         \/ heap = [x \in Addrs |-> IF x = CallerArr THEN BatchOfTwo(t) ELSE Null]
    /\ isnd = TRUE
    /\ self = CallerArr
    /\ other = 0
    /\ call = <<>>
    /\ ret = Ok(CallerArr)
    /\ pre = heap

\* bbox = bbox.rectify(size): BBox(arr) of the clipped array, no copy
DoRectify(size) ==
    /\ CanCall(MaxCalls)
    /\ LET r == Rectify(heap[self], size)
           a == Alloc(heap)
       IN  IF r.err = ""
           THEN LET b == BBoxInit([heap EXCEPT ![a] = r.arr], a, TRUE, "xyxy",
                                  I(DefaultBase), FALSE)
                IN  heap' = b.heap /\ self' = b.bbox /\ ret' = Ok(b.bbox)
           ELSE heap' = heap /\ self' = self /\ ret' = Raise(r.err)
    /\ call' = Append(call, [NoCall EXCEPT !.op = "rectify", !.arg = size, !.on = self])
    /\ pre' = heap
    /\ UNCHANGED <<isnd, other>>

\* bbox.is_inside(size)
DoIsInside(size) ==
    /\ CanCall(MaxCalls)
    /\ ret' = IsInside(heap[self], size)
    /\ call' = Append(call, [NoCall EXCEPT !.op = "is_inside", !.arg = size, !.on = self])
    /\ pre' = heap
    /\ UNCHANGED <<heap, isnd, self, other>>

NextRectify ==
    \E size \in ImageSizes :
        \/ DoRectify(size)
        \/ DoIsInside(size)

SpecRectify ==
    InitRectify /\ [][NextRectify]_vars

-----------------------------------------------------------------------------
(* Overlap: two boxes a (self) and b (other); b may be a itself             *)

OtherBoxes ==
    [Indices(<<4>>) -> {I(0), I(MaxCoord)}]

InitOverlap ==
    /\ \E t \in {"int", "float"}, d \in [Indices(<<4>>) -> Coords] :
         \/ /\ other = CallerArr
            /\ heap = [x \in Addrs |->
                   IF x = CallerArr THEN [dtype |-> t, shape |-> <<4>>, data |-> d]
                   ELSE Null]
         \/ /\ other = CallerArr + 1
            /\ \E e \in OtherBoxes :
                 heap = [x \in Addrs |->
                   IF x = CallerArr THEN [dtype |-> t, shape |-> <<4>>, data |-> d]
                   ELSE IF x = CallerArr + 1
                   THEN [dtype |-> t, shape |-> <<4>>, data |-> e]
                   ELSE Null]
         \/ /\ other = CallerArr + 1
            /\ \E v \in Coords :
                 heap = [x \in Addrs |->
                   IF x = CallerArr THEN BatchOfTwo(t)
                   ELSE IF x = CallerArr + 1 THEN FilledArray(t, <<2, 4>>, v)
                   ELSE Null]
    /\ isnd = TRUE
    /\ self = CallerArr
    /\ call = <<>>
    /\ ret = Ok(CallerArr)
    /\ pre = heap

Returns(name, v) ==
    /\ ret' = Ok(v)
    /\ call' = Append(call, [NoCall EXCEPT !.op = name, !.on = self])
    /\ pre' = heap
    /\ UNCHANGED <<heap, isnd, self, other>>

\* a.area
DoArea ==
    /\ call = <<>>
    /\ Returns("area", Area(heap[self]))

\* a.is_valid()
DoIsValid ==
    /\ call = <<>>
    /\ Returns("is_valid", IsValid(heap[self]))

\* a & b
DoAnd ==
    /\ call = <<>>
    /\ LET x == Alloc(heap)
           b == BBoxInit([heap EXCEPT ![x] = And(heap[self], heap[other])], x,
                         TRUE, "xyxy", I(DefaultBase), FALSE)
       IN  heap' = b.heap /\ ret' = Ok(b.bbox)
    /\ call' = Append(call, [NoCall EXCEPT !.op = "and", !.on = self])
    /\ pre' = heap
    /\ UNCHANGED <<isnd, self, other>>

\* a.IoU(b)
DoIoU ==
    /\ call = <<>>
    /\ Returns("iou", IoU(heap[self], heap[other]))

NextOverlap ==
    \/ DoArea
    \/ DoIsValid
    \/ DoAnd
    \/ DoIoU

SpecOverlap ==
    InitOverlap /\ [][NextOverlap]_vars

-----------------------------------------------------------------------------
(* Stacking: other is the sequence of boxes handed to stack, self the      *)
(* stacked box                                                              *)

\* the batch shape of rank n used for the boxes: (2, 3, ...)
BatchShape(n) ==
    [j \in 1..n |-> j + 1]

\* position of index tuple i in row-major order
RECURSIVE Linear(_, _)
Linear(i, shape) ==
    IF i = <<>> THEN 0
    ELSE Linear(SubSeq(i, 1, Len(i) - 1), SubSeq(shape, 1, Len(shape) - 1))
             * shape[Len(shape)] + i[Len(i)]

\* a box array of batch rank n whose entries all differ, starting at seed
SeededArray(dtype, n, seed) ==
    [dtype |-> dtype, shape |-> BatchShape(n) \o <<4>>,
     data |-> [i \in Indices(BatchShape(n) \o <<4>>) |->
                 I(100 * seed + Linear(i, BatchShape(n) \o <<4>>))]]

InitStack ==
    /\ \E n \in 0..MaxRank, k \in 1..MaxBoxes, t \in {"int", "float"} :
         \E seeds \in [1..k -> 0..MaxCoord] :
            /\ heap = [x \in Addrs |->
                         IF x <= k THEN SeededArray(t, n, seeds[x]) ELSE Null]
            /\ other = [x \in 1..k |-> x]
    /\ isnd = TRUE
    /\ self = 0
    /\ call = <<>>
    /\ ret = Ok(0)
    /\ pre = heap

\* bbox = stack(bboxes, axis)
DoStack(axis) ==
    /\ call = <<>>
    /\ LET r == Stack(heap, other, axis)
       IN  /\ heap' = r.heap
           /\ self' = r.bbox
           /\ ret' = IF r.err = "" THEN Ok(r.bbox) ELSE Raise(r.err)
    /\ call' = Append(call, [NoCall EXCEPT !.op = "stack", !.axis = axis])
    /\ pre' = heap
    /\ UNCHANGED <<isnd, other>>

\* bbox[key]
DoGetItem(key) ==
    /\ LastOp = "stack" /\ ret.err = ""
    /\ LET r == GetItem(heap[self], key)
       IN  ret' = IF r.err = "" THEN Ok(r.arr) ELSE Raise(r.err)
    /\ call' = Append(call, [NoCall EXCEPT !.op = "getitem", !.axis = key, !.on = self])
    /\ pre' = heap
    /\ UNCHANGED <<heap, isnd, self, other>>

NextStack ==
    \/ \E axis \in (-(MaxRank + 3))..(MaxRank + 3) : DoStack(axis)
    \/ \E key \in 0..MaxBoxes : DoGetItem(key)

SpecStack ==
    InitStack /\ [][NextStack]_vars

-----------------------------------------------------------------------------
(* Claims *)

\* the caller's array as it was before the last call
Before ==
    pre[CallerArr]

Canonical(a, mode, o, i) ==
    LET c  == Col(i)
        lo == a.data[WithCol(i, c % 2)]
        ex == a.data[WithCol(i, 2 + (c % 2))]
        x0 == IF mode = "ccwh" THEN RSub(lo, RDiv(RSub(ex, I(1)), I(2))) ELSE lo
        x1 == IF mode = "xyxy" THEN ex ELSE RSub(RAdd(x0, ex), I(1))
    IN  RSub(IF c < 2 THEN x0 ELSE x1, o)

\* C2 as stated: the origin defaults to 1 and every stored coordinate is the
\* mode-converted input coordinate plus (1 - o).
C2_OriginOne ==
    (Len(call) = 1 /\ LastOp = "init" /\ ret.err = "") =>
        \A i \in DOMAIN Before.data :
            heap[self].data[i] =
                RAdd(Canonical(Before, call[1].mode, I(0), i),
                     RSub(I(1), call[1].base))

\* C2 amended: the origin defaults to 0 and canonical storage uses origin 0:
\* every stored coordinate is the mode-converted input coordinate minus o, so
\* a box built with the default origin is stored unshifted and one declared
\* with origin 1 is stored shifted by -1.
C2_OriginZero ==
    /\ (Len(call) = 1 /\ LastOp = "init" /\ ret.err = "") =>
          \A i \in DOMAIN Before.data :
              heap[self].data[i] =
                  Canonical(Before, call[1].mode, call[1].base, i)
    /\ (LastOp = "from_xywh" /\ ret.err = "") =>
          \A i \in DOMAIN heap[other].data :
              heap[other].data[i] =
                  Canonical(AsXywh(heap[self]), "xywh", I(0), i)

\* a 'ccwh' box declared with origin 1 has been stored
C2_Witness ==
    /\ Len(call) = 1 /\ LastOp = "init" /\ ret.err = ""
    /\ call[1].mode = "ccwh" /\ call[1].base = I(1)
    /\ \E i \in DOMAIN Before.data : heap[self].data[i] # Before.data[i]

BadShape(a) ==
    Len(a.shape) = 0 \/ a.shape[Len(a.shape)] # 4

\* C3: construction fails with the shape ValueError for every input whose
\* trailing dimension is not 4 (inputs with no dimension included) and with
\* the mode ValueError for every unknown mode; no BBox is produced and the
\* caller's array is unchanged.
C3_Validation ==
    (Len(call) = 1 /\ LastOp = "init") =>
        /\ call[1].mode \notin Modes =>
              ret.err = "ValueError_mode" /\ self = 0 /\ heap = pre
        /\ (call[1].mode \in Modes /\ BadShape(Before)) =>
              ret.err = "ValueError_shape" /\ self = 0 /\ heap = pre

\* C4 as stated: a successful construction leaves the caller's array as it
\* was, and two constructions in a row from the same array with the same
\* mode and origin yield equal coordinates.
C4_NoSideEffect ==
    (LastOp = "init" /\ ret.err = "") =>
        /\ heap[CallerArr] = Before
        /\ Len(call) = 2 => call[1].out.data = call[2].out.data

\* C4 amended: with copy=True, or an input that is not an ndarray, the
\* caller's values are untouched and the BBox has its own array; with
\* copy=False on an ndarray the BBox is that very array, which construction
\* itself overwrites with the canonical coordinates (unchanged values only
\* for mode 'xyxy' with origin 0); a second construction with the same mode
\* and origin yields the same coordinates when the first construction copied.
C4_Frame ==
    (LastOp = "init" /\ ret.err = "") =>
        LET c == Last(call)
            b == ret.val
        IN  /\ (c.copy \/ ~isnd) => (b # CallerArr /\ heap[CallerArr] = Before)
            /\ (~c.copy /\ isnd) =>
                  /\ b = CallerArr
                  /\ \A i \in DOMAIN Before.data :
                        heap[CallerArr].data[i] = Canonical(Before, c.mode, c.base, i)
                  /\ (c.mode = "xyxy" /\ c.base = I(0)) => heap[CallerArr] = Before
            /\ (Len(call) = 2 /\ (call[1].copy \/ ~isnd)) =>
                  call[1].out.data = call[2].out.data

\* the x and y values of a valid Pairable argument
PairVal(arg) ==
    pair(arg).val

IsPair(arg) ==
    pair(arg).err = ""

NonZero(arg) ==
    IsPair(arg) /\ PairVal(arg)[1][1] # 0 /\ PairVal(arg)[2][1] # 0

\* C5: (b + d) - d and (b * k) / k have the coordinates of b, also when one
\* side is a scalar s and the other the pair (s, s), and +, -, * and / leave
\* their operand b unchanged.
C5_Inverse ==
    /\ LastOp \in {"add", "sub", "mul", "truediv"} => heap[self] = pre[self]
    /\ (/\ Len(call) = 2
        /\ <<call[1].op, call[2].op>> \in {<<"add", "sub">>, <<"mul", "truediv">>}
        /\ NonZero(call[1].arg) /\ IsPair(call[2].arg)
        /\ PairVal(call[1].arg) = PairVal(call[2].arg)) =>
            /\ ret.err = ""
            /\ heap[other].data = heap[self].data

\* the round trip of C5 on floating-point storage only
C5_InverseFloat ==
    /\ LastOp \in {"add", "sub", "mul", "truediv"} => heap[self] = pre[self]
    /\ (/\ Len(call) = 2
        /\ heap[self].dtype = "float"
        /\ <<call[1].op, call[2].op>> \in {<<"add", "sub">>, <<"mul", "truediv">>}
        /\ NonZero(call[1].arg) /\ IsPair(call[2].arg)
        /\ PairVal(call[1].arg) = PairVal(call[2].arg)) =>
            /\ ret.err = ""
            /\ heap[other].data = heap[self].data

ScaleOps ==
    {"imul", "mul", "itruediv", "truediv"}

\* the factor pair a scaling call multiplies by
Factor(c) ==
    IF c.op \in {"imul", "mul"} THEN PairVal(c.arg)
    ELSE <<RDiv(I(1), PairVal(c.arg)[1]), RDiv(I(1), PairVal(c.arg)[2])>>

\* the operand of the last call as it was before the call
Operand ==
    pre[Last(call).on]

\* C6 as stated: *, *=, / and /= keep the center of every box and multiply
\* its size by the factor pair.
C6_AboutCenter ==
    (LastOp \in ScaleOps /\ ret.err = "") =>
        \A b \in Batch(Operand) :
            /\ Center(heap[other])[b] = Center(Operand)[b]
            /\ Size(heap[other])[b] =
                   <<RMul(Factor(Last(call))[1], Size(Operand)[b][1]),
                     RMul(Factor(Last(call))[2], Size(Operand)[b][2])>>

\* C6 amended: *, *=, / and /= scale about the fixed point (-0.5, -0.5):
\* x0 becomes kx * x0 and x1 becomes kx * (x1 + 1) - 1 (likewise y0, y1 with
\* ky), each converted to the dtype of the storage; on floating-point
\* storage the size is (kx * width, ky * height) and a center c moves to
\* k * (c + 0.5) - 0.5.
C6_AboutCorner ==
    (LastOp \in ScaleOps /\ ret.err = "") =>
        LET A == Operand
            R == heap[other]
            k == Factor(Last(call))
        IN  /\ R.dtype = A.dtype
            /\ \A i \in DOMAIN A.data :
                  R.data[i] =
                      Cast(A.dtype,
                           IF Col(i) < 2 THEN RMul(k[1 + (Col(i) % 2)], A.data[i])
                           ELSE RSub(RMul(k[1 + (Col(i) % 2)], RAdd(A.data[i], I(1))),
                                     I(1)))
            /\ A.dtype = "float" =>
                  \A b \in Batch(A) : \A j \in 1..2 :
                      /\ Size(R)[b][j] = RMul(k[j], Size(A)[b][j])
                      /\ Center(R)[b][j] =
                             RSub(RMul(k[j], RAdd(Center(A)[b][j], Half)), Half)

\* a float box has been scaled by (2, 1/2) and its center has moved
C6_Witness ==
    /\ LastOp = "mul" /\ ret.err = ""
    /\ Last(call).arg = Tuple(<<I(2), Half>>)
    /\ Operand.dtype = "float"
    /\ \E b \in Batch(Operand) : Center(heap[other])[b] # Center(Operand)[b]
    /\ heap[self] = Operand

\* width and height of batch entry b of array a, from its coordinates
W(a, b) ==
    RAdd(RSub(a.data[Append(b, 2)], a.data[Append(b, 0)]), I(1))

H(a, b) ==
    RAdd(RSub(a.data[Append(b, 3)], a.data[Append(b, 1)]), I(1))

Positive(x) ==
    x[1] > 0

\* C7: area >= 0 for every box; it is width * height when both are positive
\* and exactly 0 otherwise, also when both are negative.
C7_Area ==
    LastOp = "area" =>
        \A b \in Batch(heap[self]) :
            LET w == W(heap[self], b)
                h == H(heap[self], b)
            IN  /\ ret.val[b][1] >= 0
                /\ (Positive(w) /\ Positive(h)) => ret.val[b] = RMul(w, h)
                /\ ~(Positive(w) /\ Positive(h)) => ret.val[b] = I(0)

\* the area of a box of negative width and negative height has been taken
C7_Witness ==
    /\ LastOp = "area"
    /\ \E b \in Batch(heap[self]) :
          /\ W(heap[self], b)[1] < 0
          /\ H(heap[self], b)[1] < 0
          /\ ret.val[b] = I(0)

\* the image size of a call is a scalar or a pair with w >= 1 and h >= 1
SizeOk(c) ==
    IsPair(c.arg) /\ RLe(I(1), PairVal(c.arg)[1]) /\ RLe(I(1), PairVal(c.arg)[2])

\* C8: for an image size with w >= 1 and h >= 1, every entry of
\* b.rectify(size).is_inside(size) is true, a second rectify(size) changes
\* no coordinate, and b itself is not modified.
C8_Rectify ==
    /\ (LastOp = "rectify" /\ SizeOk(Last(call))) =>
          /\ ret.err = ""
          /\ self # Last(call).on
          /\ heap[Last(call).on] = Operand
          /\ \A b \in Batch(heap[self]) : IsInside(heap[self], Last(call).arg).val[b]
          /\ \A i \in DOMAIN heap[self].data :
                LET hi == RSub(PairVal(Last(call).arg)[1 + (Col(i) % 2)], I(1))
                IN  RLe(I(0), heap[self].data[i]) /\ RLe(heap[self].data[i], hi)
    /\ (/\ Len(call) >= 2
        /\ call[Len(call) - 1].op = "rectify" /\ SizeOk(Last(call))
        /\ call[Len(call) - 1].arg = Last(call).arg) =>
          /\ LastOp = "is_inside" => \A b \in Batch(heap[self]) : ret.val[b]
          /\ LastOp = "rectify" => heap[self].data = Operand.data

\* a box lying partly outside the image has been rectified twice
C8_Witness ==
    /\ Len(call) = 2
    /\ call[1].op = "rectify" /\ call[2].op = "rectify"
    /\ call[1].arg = Tuple(<<I(2), I(1)>>) /\ call[2].arg = call[1].arg
    /\ heap[CallerArr].data # heap[self].data
    /\ \E b \in Batch(heap[CallerArr]) :
          /\ ~IsInside(heap[CallerArr], call[1].arg).val[b]
          /\ ~IsValid(heap[CallerArr])[b]

\* C10: b.IoU(b) = 1 for a valid box b; a.IoU(b) = 0 for valid boxes whose
\* intersection has width <= 0 or height <= 0; a.IoU(b) = b.IoU(a).
C10_IoU ==
    LastOp = "iou" =>
        \A b \in Batch(heap[self]) :
            LET A  == heap[self]
                B  == heap[other]
                ok == /\ Positive(W(A, b)) /\ Positive(H(A, b))
                      /\ Positive(W(B, b)) /\ Positive(H(B, b))
                iw == RAdd(RSub(RMin(At(A, b, 2), At(B, b, 2)),
                                RMax(At(A, b, 0), At(B, b, 0))), I(1))
                ih == RAdd(RSub(RMin(At(A, b, 3), At(B, b, 3)),
                                RMax(At(A, b, 1), At(B, b, 1))), I(1))
            IN  /\ (ok /\ A.data = B.data) => ret.val[b] = I(1)
                /\ (ok /\ ~(Positive(iw) /\ Positive(ih))) => ret.val[b] = I(0)
                /\ ok => ret.val[b] = IoU(B, A)[b]

\* the IoU of two valid boxes that touch edge to edge has been taken
C10_Witness ==
    /\ LastOp = "iou"
    /\ other # self
    /\ \E b \in Batch(heap[self]) :
          /\ IsValid(heap[self])[b] /\ IsValid(heap[other])[b]
          /\ At(heap[self], b, 2) = RSub(At(heap[other], b, 0), I(1))
          /\ ret.val[b] = I(0)

\* C9: for boxes of batch rank n, stack(boxes, axis) raises AxisError for
\* every axis outside -(n+1)..n and creates nothing; for 0 <= axis <= n the
\* new batch axis is at position axis; for a negative axis the result is that
\* of axis + n + 1; the coordinate axis of size 4 stays last; and position i
\* of a stack along axis 0 is the i-th input box.
C9_Stack ==
    /\ LastOp = "stack" =>
          LET n    == Len(heap[other[1]].shape) - 1
              axis == Last(call).axis
              j    == (IF axis < 0 THEN axis + n + 1 ELSE axis) + 1
              R    == heap[self]
          IN  IF axis < -(n + 1) \/ axis > n
              THEN ret.err = "AxisError" /\ self = 0 /\ heap = pre
              ELSE /\ ret.err = ""
                   /\ Len(R.shape) = n + 2
                   /\ R.shape[j] = Len(other)
                   /\ R.shape[n + 2] = 4
                   /\ RemoveAt(R.shape, j) = heap[other[1]].shape
                   /\ \A i \in DOMAIN R.data :
                         R.data[i] = heap[other[i[j] + 1]].data[RemoveAt(i, j)]
                   /\ axis < 0 => R = Stack(pre, other, axis + n + 1).heap[self]
                   /\ \A k \in 1..Len(other) : heap[other[k]] = pre[other[k]]
    /\ (/\ LastOp = "getitem"
        /\ call[1].axis \in {0, -Len(heap[other[1]].shape)}
        /\ Last(call).axis < Len(other)) =>
          /\ ret.err = ""
          /\ ret.val = heap[other[Last(call).axis + 1]]

\* three boxes of batch rank 1 have been stacked along axis -1
C9_Witness ==
    /\ LastOp = "stack" /\ ret.err = ""
    /\ Last(call).axis = -1
    /\ Len(other) = 3
    /\ heap[self].shape = <<2, 3, 4>>
    /\ heap[other[1]] # heap[other[2]]

\* a second construction after a copying first one, in a converting mode
C4_Witness ==
    /\ Len(call) = 2 /\ LastOp = "init" /\ ret.err = ""
    /\ isnd /\ call[1].copy /\ ~call[2].copy
    /\ call[1].mode = "xywh"
    /\ heap[CallerArr] # Before
    /\ self # CallerArr /\ other = CallerArr

====
